---- MODULE Spec2Model ----
(***************************************************************************)
(* The user-league ledger (managers, roster items, operations) and the     *)
(* MarketService handlers of src/core/services/user/market_service.py that *)
(* act on it.  Money is in euros, dates are whole days.                    *)
(***************************************************************************)
EXTENDS Integers, Sequences, FiniteSets, TLC

\* ------------------------------------------------------------------ bounds
\* longest Operation log explored
MaxOps == 2
\* latest hour the clock reaches
MaxClock == 4

\* ------------------------------------------------- defaults read from config
DefaultPurchaseShieldDuration == 14
DefaultShieldDuration == 1
DefaultMaxShields == 2
DefaultMaxNegativeBalancePct == 20
DefaultPointReward == 10000
\* datetime.max (year 9999): the open end of the last cycle
DateMax == 9999
DefaultClauseLockoutHours == 24

\* --------------------------------------------------------------- the stores
\* SQL NULL / Python None for an optional value; a present value v is <<v>>
Null == <<>>
Some(v) == <<v>>

Leagues == {"L1", "L2"}
Managers == {"m1", "m2", "m3"}
\* manager ids a caller may pass; "m9" is no row of the managers table
ManagerIds == Managers \cup {"m9"}
NoManager == "none"
league_id == [m \in Managers |-> IF m = "m3" THEN "L2" ELSE "L1"]

\* fantasy store: the players table (slug -> market_value); "ghost" has no row
RealPlayers == {"p1", "p2"}
market_value == [s \in RealPlayers |-> IF s = "p1" THEN 12000000 ELSE 4000000]
Slugs == RealPlayers \cup {"ghost"}

\* transaction dates a caller passes: day 0 and day 1 (the schedules below put
\* their kickoffs around them)
Dates == {0, 1}
Amounts == {4000000, 12000000}
SignedAmounts == {0 - 12000000, 4000000}
\* amounts a caller passes to increase_clause: the code checks no sign
ClauseAmounts == Amounts \cup {0 - 4000000}
PaymentTypes == {"REWARD", "BONUS", "FINE"}
ItemIds == 1..3
\* (buyer, seller) of a negotiated transfer: two managers of one league either
\* way round, managers of different leagues, an unknown buyer, an unknown
\* seller, and a manager with itself
TransferPairs ==
    {<<"m1", "m2">>, <<"m2", "m1">>, <<"m1", "m3">>, <<"m3", "m2">>,
     <<"m9", "m2">>, <<"m1", "m9">>, <<"m3", "m3">>}

VARIABLES
    budget,      \* Manager.budget
    snapshot,    \* Manager.team_value_snapshot
    roster,      \* the roster_items table, a set of rows
    ops,         \* the operations table, in insertion order
    config,      \* UserLeague.config_json, per league
    matches,     \* fantasy store: the matches table (jornada, date)
    last,        \* the latest call: handler, arguments, return signal
    clock,       \* datetime.now(), in whole hours
    lockout,     \* the latest check_market_lockout call: league, now, return value
    args,        \* the arguments of a calculate_derived_metrics call
    metrics,     \* what that call gave back, Null before the call
    query        \* the latest LeagueService read of the present ledger: function, arguments, answer

vars == <<budget, snapshot, roster, ops, config, matches, last, clock, lockout, args, metrics, query>>

\* no read since the ledger last changed
NoQuery == [fn |-> "none", league_id |-> "none", op |-> Null, answer |-> Null]

\* the part of the user store a session reads and writes
Store == [budget |-> budget, roster |-> roster, ops |-> ops]

\* config_json.get(key, default)
cfg_get(c, key, default) == IF key \in DOMAIN c THEN c[key] ELSE default

\* ------------------------------------------------------------------ helpers
\* format(value, spec) as the f-strings of the handlers use it: Python accepts
\* ",", "+," and ",.0f" and raises ValueError("Format specifier missing
\* precision") for the spec "."
\* faulty variant: every format spec accepted, "." taken for a thousands separator
format_ok_any_spec(spec) == TRUE

format_ok(spec) == spec \in {",", "+,", ",.0f"}

\* Session.rollback(): the session goes back to the last committed store
\* faulty variant: the pending changes survive the rollback
rollback_keeps_pending(committed, pending) == pending

rollback(committed, pending) == committed

\* BaseService.save_changes(): commit; a failed commit rolls back and re-raises
save_changes(committed, pending, commitOk) ==
    IF commitOk THEN [store |-> pending, raised |-> FALSE]
    ELSE [store |-> rollback(committed, pending), raised |-> TRUE]

\* MarketService._get_manager
get_manager(manager_id) == IF manager_id \in Managers THEN Some(manager_id) ELSE Null

\* MarketService._check_solvency: future_balance < -(snapshot * pct / 100.0) is
\* a refusal. future_balance is an integer and snapshot * pct is not negative,
\* so the comparison is the one with max_debt rounded down.
check_solvency(S, m, cost, c) ==
    LET limit_pct == cfg_get(c, "max_negative_balance_percentage", DefaultMaxNegativeBalancePct)
        max_debt == (snapshot[m] * limit_pct) \div 100
        future_balance == S.budget[m] - cost
    IN ~(future_balance < 0 - max_debt)

\* faulty variant: count() > 1 in place of count() > 0
is_player_owned_above_one(S, lg, slug) ==
    Cardinality({it \in S.roster : league_id[it.manager_id] = lg /\ it.player_slug = slug}) > 1

\* MarketService._is_player_owned
is_player_owned(S, lg, slug) ==
    Cardinality({it \in S.roster : league_id[it.manager_id] = lg /\ it.player_slug = slug}) > 0

\* autoincrement primary key of a new roster_items row
next_item_id(S) ==
    IF S.roster = {} THEN 1
    ELSE 1 + CHOOSE n \in {it.id : it \in S.roster} : \A it \in S.roster : it.id <= n

Operation(lg, buyer, seller, slug, op_type, amount, date) ==
    [league_id |-> lg, buyer_id |-> buyer, seller_id |-> seller, player_slug |-> slug,
     op_type |-> op_type, amount |-> amount, date |-> date]

\* Session.add(op): the new row goes after the rows the operations table holds
\* faulty variant: the new row takes the place of the latest row
db_add_over_latest(log, op) ==
    IF log = <<>> THEN <<op>> ELSE [log EXCEPT ![Len(log)] = op]

db_add(log, op) == Append(log, op)

\* the strict funds test of increase_clause and transfer_player_between_users:
\* manager.budget < amount
\* faulty variant: the loose test of _check_solvency in its place
insufficient_funds_below_ceiling(S, m, amount) ==
    ~check_solvency(S, m, amount, config[league_id[m]])

insufficient_funds(S, m, amount) == S.budget[m] < amount

\* what a call gives back: the store it leaves, the return signal and the exit taken
Outcome(S, ret, exit) == [store |-> S, ret |-> ret, exit |-> exit]

\* ------------------------------------------------- sign_player_from_market
sign_player_from_market(S, manager_id, player_slug, bid_amount, transaction_date, commitOk) ==
    IF get_manager(manager_id) = Null THEN Outcome(S, "None", "manager_not_found")
    ELSE
    LET m == manager_id
        c == config[league_id[m]]
    IN
    IF ~check_solvency(S, m, bid_amount, c) THEN Outcome(S, "None", "insolvent")
    ELSE IF is_player_owned(S, league_id[m], player_slug) THEN Outcome(S, "None", "already_owned")
    ELSE IF player_slug \notin RealPlayers THEN Outcome(S, "None", "player_not_found")
    ELSE IF bid_amount < market_value[player_slug] THEN
        \* the warning's f-string is evaluated outside the try block
        IF format_ok(".") THEN Outcome(S, "None", "below_market_value")
        ELSE Outcome(S, "raise", "below_market_value")
    ELSE
    LET lock_days == cfg_get(c, "purchase_shield_duration", DefaultPurchaseShieldDuration)
        new_item == [id |-> next_item_id(S),
                     manager_id |-> m,
                     player_slug |-> player_slug,
                     purchase_price |-> bid_amount,
                     clause |-> bid_amount,
                     value_when_signed |-> market_value[player_slug],
                     accumulated_points |-> 0,
                     is_amortized |-> ~(market_value[player_slug] = bid_amount),
                     lineup_status |-> "reserve",
                     is_captain |-> FALSE,
                     signed_at |-> transaction_date,
                     locked_until |-> Some(transaction_date + lock_days)]
    IN
    \* the description f-string of the Operation is built inside the try block
    IF ~format_ok(".") THEN Outcome(rollback(S, S), "None", "format_error")
    ELSE
    LET op == Operation(league_id[m], m, NoManager, Some(player_slug), "BUY",
                        0 - bid_amount, transaction_date)
        pending == [budget |-> [S.budget EXCEPT ![m] = @ - bid_amount],
                    roster |-> S.roster \cup {new_item},
                    ops |-> db_add(S.ops, op)]
        saved == save_changes(S, pending, commitOk)
    IN
    IF saved.raised THEN Outcome(rollback(S, saved.store), "None", "commit_failed")
    ELSE IF ~format_ok(".") THEN Outcome(rollback(saved.store, saved.store), "None", "format_error")
    ELSE Outcome(saved.store, "item", "accepted")

\* --------------------------------------------------- sell_player_to_market
find_item_by_id(S, roster_item_id) == {it \in S.roster : it.id = roster_item_id}

sell_player_to_market(S, roster_item_id, sale_price, transaction_date, commitOk) ==
    IF find_item_by_id(S, roster_item_id) = {} THEN Outcome(S, "False", "item_not_found")
    ELSE
    LET item == CHOOSE it \in find_item_by_id(S, roster_item_id) : TRUE
        m == item.manager_id
    IN
    \* the description f-string of the Operation is built first inside the try block
    IF ~format_ok(".") THEN Outcome(rollback(S, S), "False", "format_error")
    ELSE
    LET op == Operation(league_id[m], NoManager, m, Some(item.player_slug), "SALE",
                        sale_price, transaction_date)
        pending == [budget |-> [S.budget EXCEPT ![m] = @ + sale_price],
                    roster |-> S.roster \ {item},
                    ops |-> db_add(S.ops, op)]
        saved == save_changes(S, pending, commitOk)
    IN
    IF saved.raised THEN Outcome(rollback(S, saved.store), "False", "commit_failed")
    ELSE IF ~format_ok(".") THEN Outcome(rollback(saved.store, saved.store), "False", "format_error")
    ELSE Outcome(saved.store, "True", "accepted")

\* ---------------------------------------------------------- increase_clause
\* faulty variant: filter_by(player_slug) alone, whoever the manager is
find_item_of_any_manager(S, m, slug) ==
    LET rows == {it \in S.roster : it.player_slug = slug}
    IN IF rows = {} THEN Null
       ELSE Some(CHOOSE it \in rows : \A other \in rows : it.id <= other.id)

\* query(RosterItem).filter_by(manager_id, player_slug).first()
find_item(S, m, slug) ==
    LET rows == {it \in S.roster : it.manager_id = m /\ it.player_slug = slug}
    IN IF rows = {} THEN Null
       ELSE Some(CHOOSE it \in rows : \A other \in rows : it.id <= other.id)

\* the amortization re-evaluation of increase_clause; the code's
\* (pp - v) + (old_clause - pp) / 2 + paid > points * reward, doubled to stay integral
still_amortized(item, old_clause, amount_paid, point_reward) ==
    IF item.is_amortized
    THEN ~(2 * (item.purchase_price - item.value_when_signed)
             + (old_clause - item.purchase_price) + 2 * amount_paid
           > 2 * item.accumulated_points * point_reward)
    ELSE FALSE

increase_clause(S, manager_id, player_slug, amount_paid, transaction_date, commitOk) ==
    IF get_manager(manager_id) = Null THEN Outcome(S, "None", "manager_not_found")
    ELSE
    LET m == manager_id IN
    IF find_item(S, m, player_slug) = Null THEN Outcome(S, "None", "item_not_found")
    ELSE
    LET item == find_item(S, m, player_slug)[1] IN
    IF insufficient_funds(S, m, amount_paid) THEN
        \* the warning's f-string is evaluated outside the try block
        IF format_ok(".") THEN Outcome(S, "None", "insufficient_funds")
        ELSE Outcome(S, "raise", "insufficient_funds")
    ELSE
    LET clause_increase == amount_paid * 2
        old_clause == item.clause
        new_clause == old_clause + clause_increase
        point_reward == cfg_get(config[league_id[m]], "point_reward", DefaultPointReward)
        new_item == [item EXCEPT !.clause = new_clause,
                                 !.is_amortized = still_amortized(item, old_clause, amount_paid, point_reward)]
        mutated == [budget |-> [S.budget EXCEPT ![m] = @ - amount_paid],
                    roster |-> (S.roster \ {item}) \cup {new_item},
                    ops |-> S.ops]
    IN
    \* budget and clause are already changed when the description is formatted
    IF ~format_ok(".") THEN Outcome(rollback(S, mutated), "None", "format_error")
    ELSE
    LET op == Operation(league_id[m], m, NoManager, Some(player_slug), "CLAUSE_INCREASE",
                        0 - amount_paid, transaction_date)
        pending == [mutated EXCEPT !.ops = db_add(S.ops, op)]
        saved == save_changes(S, pending, commitOk)
    IN
    IF saved.raised THEN Outcome(rollback(S, saved.store), "None", "commit_failed")
    ELSE IF ~format_ok(".") THEN Outcome(rollback(saved.store, saved.store), "None", "format_error")
    ELSE Outcome(saved.store, "item", "accepted")

\* ----------------------------------------------------------- protect_player
\* min(date) per jornada over the matches that have a date
gw_start_rows ==
    {[jornada |-> j, start_date |-> CHOOSE d \in {x.date[1] : x \in {y \in matches : y.jornada = j /\ y.date # Null}} :
                        \A x \in {y \in matches : y.jornada = j /\ y.date # Null} : d <= x.date[1]]
        : j \in {y.jornada : y \in {z \in matches : z.date # Null}}}

\* ... ordered by that start date, ascending (equal starts: by jornada)
RECURSIVE sorted_by_start(_)
sorted_by_start(rows) ==
    IF rows = {} THEN <<>>
    ELSE LET first == CHOOSE r \in rows : \A o \in rows :
                          \/ r.start_date < o.start_date
                          \/ (r.start_date = o.start_date /\ r.jornada <= o.jornada)
         IN <<first>> \o sorted_by_start(rows \ {first})

gw_starts == sorted_by_start(gw_start_rows)

\* LOCK operations of the manager dated in [cycle_start, cycle_end)
locks_used(S, m, cycle_start, cycle_end) ==
    Cardinality({i \in 1..Len(S.ops) :
        /\ S.ops[i].league_id = league_id[m]
        /\ S.ops[i].buyer_id = m
        /\ S.ops[i].op_type = "LOCK"
        /\ S.ops[i].date >= cycle_start
        /\ S.ops[i].date < cycle_end})

\* the for loop over gw_starts: TRUE when some iteration returns False (limit reached).
\* The count is taken inside the loop body, once per gameweek that has started.
RECURSIVE limit_reached(_, _, _, _, _)
limit_reached(S, m, transaction_date, max_locks, i) ==
    IF i > Len(gw_starts) THEN FALSE
    ELSE IF gw_starts[i].start_date <= transaction_date THEN
        LET cycle_start == gw_starts[i].start_date
            cycle_end == IF i + 1 <= Len(gw_starts) THEN gw_starts[i + 1].start_date ELSE DateMax
        IN IF locks_used(S, m, cycle_start, cycle_end) >= max_locks THEN TRUE
           ELSE limit_reached(S, m, transaction_date, max_locks, i + 1)
    ELSE FALSE

\* the shield's length in days: shield_duration, doubled by premium_enabled
\* faulty variant: premium_enabled is not read
shield_days_without_premium(c) == cfg_get(c, "shield_duration", DefaultShieldDuration)

shield_days(c) ==
    LET days == cfg_get(c, "shield_duration", DefaultShieldDuration)
        premium == cfg_get(c, "premium_enabled", FALSE)
    IN IF premium THEN days * 2 ELSE days

protect_player(S, manager_id, player_slug, transaction_date, commitOk) ==
    IF get_manager(manager_id) = Null THEN Outcome(S, "False", "manager_not_found")
    ELSE
    LET m == manager_id
        c == config[league_id[m]]
    IN
    IF find_item(S, m, player_slug) = Null THEN Outcome(S, "False", "item_not_found")
    ELSE
    LET item == find_item(S, m, player_slug)[1]
        max_locks == cfg_get(c, "max_shields_per_player_per_journey", DefaultMaxShields)
    IN
    IF max_locks > 0 /\ limit_reached(S, m, transaction_date, max_locks, 1)
    THEN Outcome(S, "False", "limit_reached")
    ELSE
    LET days == shield_days(c)
        new_item == [item EXCEPT !.locked_until = Some(transaction_date + days)]
        op == Operation(league_id[m], m, NoManager, Some(player_slug), "LOCK", 0, transaction_date)
        pending == [budget |-> S.budget,
                    roster |-> (S.roster \ {item}) \cup {new_item},
                    ops |-> db_add(S.ops, op)]
        saved == save_changes(S, pending, commitOk)
    IN
    IF saved.raised THEN Outcome(rollback(S, saved.store), "False", "commit_failed")
    ELSE Outcome(saved.store, "True", "accepted")

\* -------------------------------------------- transfer_player_between_users
transfer_player_between_users(S, manager_id_buyer, manager_id_seller, player_slug, price, transaction_date, commitOk) ==
    IF get_manager(manager_id_buyer) = Null \/ get_manager(manager_id_seller) = Null
    THEN Outcome(S, "None", "manager_not_found")
    ELSE
    LET buyer == manager_id_buyer
        seller == manager_id_seller
    IN
    IF league_id[buyer] # league_id[seller] THEN Outcome(S, "None", "different_leagues")
    ELSE IF find_item(S, seller, player_slug) = Null THEN Outcome(S, "None", "item_not_found")
    ELSE IF player_slug \notin RealPlayers THEN Outcome(S, "None", "player_not_found")
    ELSE IF price < market_value[player_slug] THEN
        IF format_ok(".") THEN Outcome(S, "None", "below_market_value")
        ELSE Outcome(S, "raise", "below_market_value")
    ELSE IF insufficient_funds(S, buyer, price) THEN
        IF format_ok(".") THEN Outcome(S, "None", "insufficient_funds")
        ELSE Outcome(S, "raise", "insufficient_funds")
    ELSE
    LET item == find_item(S, seller, player_slug)[1]
        lock_days == cfg_get(config[league_id[buyer]], "purchase_shield_duration",
                             DefaultPurchaseShieldDuration)
        new_item == [item EXCEPT !.manager_id = buyer,
                                 !.purchase_price = price,
                                 !.clause = price,
                                 !.value_when_signed = market_value[player_slug],
                                 !.accumulated_points = 0,
                                 !.is_amortized = (market_value[player_slug] = price),
                                 !.lineup_status = "reserve",
                                 !.is_captain = FALSE,
                                 !.locked_until = Some(transaction_date + lock_days),
                                 !.signed_at = transaction_date]
        moved == [S.budget EXCEPT ![buyer] = @ - price]
        mutated == [budget |-> [moved EXCEPT ![seller] = @ + price],
                    roster |-> (S.roster \ {item}) \cup {new_item},
                    ops |-> S.ops]
    IN
    \* money and roster item are already changed when the description is formatted
    IF ~format_ok(".") THEN Outcome(rollback(S, mutated), "None", "format_error")
    ELSE
    LET op == Operation(league_id[buyer], buyer, seller, Some(player_slug), "TRANSFER",
                        price, transaction_date)
        pending == [mutated EXCEPT !.ops = db_add(S.ops, op)]
        saved == save_changes(S, pending, commitOk)
    IN
    IF saved.raised THEN Outcome(rollback(S, saved.store), "None", "commit_failed")
    ELSE IF ~format_ok(",") THEN Outcome(rollback(saved.store, saved.store), "None", "format_error")
    ELSE Outcome(saved.store, "item", "accepted")

\* ------------------------------------------------------- distribute_payment
distribute_payment(S, manager_id, amount, payment_type, transaction_date, commitOk) ==
    IF get_manager(manager_id) = Null THEN Outcome(S, "False", "manager_not_found")
    ELSE
    LET m == manager_id
        mutated == [S EXCEPT !.budget[m] = @ + amount]
    IN
    \* the budget is already changed when the description (every branch) is formatted
    IF ~format_ok(".") THEN Outcome(rollback(S, mutated), "False", "format_error")
    ELSE
    LET op == Operation(league_id[m], NoManager, m, Null, payment_type, amount, transaction_date)
        pending == [mutated EXCEPT !.ops = db_add(S.ops, op)]
        saved == save_changes(S, pending, commitOk)
    IN
    IF saved.raised THEN Outcome(rollback(S, saved.store), "False", "commit_failed")
    ELSE IF ~format_ok("+,") THEN Outcome(rollback(saved.store, saved.store), "False", "format_error")
    ELSE Outcome(saved.store, "True", "accepted")

\* ----------------------------------------------------- check_market_lockout
\* timedelta.total_seconds() of a difference of whole hours
total_seconds(hours) == hours * 3600

\* time_to_match.total_seconds() < lockout_hours * 3600
\* faulty variant: a match exactly lockout_hours away closes the market too
within_lockout_inclusive(time_to_match, lockout_hours) ==
    total_seconds(time_to_match) <= lockout_hours * 3600

within_lockout(time_to_match, lockout_hours) ==
    total_seconds(time_to_match) < lockout_hours * 3600

\* TRUE: the market is open. next_match is the first row of
\* query(RealMatch).filter(date > now).order_by(date asc); a NULL date passes no filter
check_market_lockout(c, now) ==
    LET lockout_hours == cfg_get(c, "clause_lockout_hours", DefaultClauseLockoutHours) IN
    IF lockout_hours <= 0 THEN TRUE
    ELSE
    LET later == {x \in matches : x.date # Null /\ x.date[1] > now} IN
    IF later = {} THEN TRUE
    ELSE
    LET next_match == CHOOSE x \in later : \A y \in later : x.date[1] <= y.date[1]
        time_to_match == next_match.date[1] - now
    IN IF within_lockout(time_to_match, lockout_hours) THEN FALSE ELSE TRUE

\* ------------------------------------------------------------------ actions
\* one call of a handler, start to end: the store it leaves and what it returned
Returned(o, op, m, m2, slug, amt, item, payment_type) ==
    /\ Len(o.store.ops) <= MaxOps
    /\ budget' = o.store.budget
    /\ roster' = o.store.roster
    /\ ops' = o.store.ops
    /\ last' = [op |-> op, ret |-> o.ret, exit |-> o.exit,
                m |-> m, m2 |-> m2, slug |-> slug, amt |-> amt, item |-> item,
                payment_type |-> payment_type]
    \* an answer read from the ledger before this call is out of date
    /\ query' = NoQuery
    /\ UNCHANGED <<snapshot, config, matches, clock, lockout, args, metrics>>

\* a commit can fail only in a call that reaches save_changes
commit_outcomes(o) == IF o.exit = "accepted" THEN BOOLEAN ELSE {TRUE}

Sign ==
    \E m \in ManagerIds, s \in Slugs, bid \in Amounts, d \in Dates :
        \E o \in {sign_player_from_market(Store, m, s, bid, d, TRUE)} :
        \E ok \in commit_outcomes(o) :
        \E r \in {IF ok THEN o ELSE sign_player_from_market(Store, m, s, bid, d, FALSE)} :
            Returned(r, "sign", m, NoManager, s, bid, 0, "none")

Sell ==
    \E id \in ItemIds, price \in Amounts, d \in Dates :
        \E o \in {sell_player_to_market(Store, id, price, d, TRUE)} :
        \E ok \in commit_outcomes(o) :
        \E r \in {IF ok THEN o ELSE sell_player_to_market(Store, id, price, d, FALSE)} :
            Returned(r, "sell", NoManager, NoManager, "none", price, id, "none")

IncreaseClause ==
    \E m \in ManagerIds, s \in Slugs, paid \in ClauseAmounts, d \in Dates :
        \E o \in {increase_clause(Store, m, s, paid, d, TRUE)} :
        \E ok \in commit_outcomes(o) :
        \E r \in {IF ok THEN o ELSE increase_clause(Store, m, s, paid, d, FALSE)} :
            Returned(r, "increase_clause", m, NoManager, s, paid, 0, "none")

Protect ==
    \E m \in ManagerIds, s \in Slugs, d \in Dates :
        \E o \in {protect_player(Store, m, s, d, TRUE)} :
        \E ok \in commit_outcomes(o) :
        \E r \in {IF ok THEN o ELSE protect_player(Store, m, s, d, FALSE)} :
            Returned(r, "protect", m, NoManager, s, 0, 0, "none")

Transfer ==
    \E pair \in TransferPairs, s \in Slugs, price \in Amounts, d \in Dates :
        \E o \in {transfer_player_between_users(Store, pair[1], pair[2], s, price, d, TRUE)} :
        \E ok \in commit_outcomes(o) :
        \E r \in {IF ok THEN o ELSE transfer_player_between_users(Store, pair[1], pair[2], s, price, d, FALSE)} :
            Returned(r, "transfer", pair[1], pair[2], s, price, 0, "none")

DistributePayment ==
    \E m \in ManagerIds, a \in SignedAmounts, t \in PaymentTypes, d \in Dates :
        \E o \in {distribute_payment(Store, m, a, t, d, TRUE)} :
        \E ok \in commit_outcomes(o) :
        \E r \in {IF ok THEN o ELSE distribute_payment(Store, m, a, t, d, FALSE)} :
            Returned(r, "distribute_payment", m, NoManager, "none", a, 0, t)

\* a caller asks whether the market of a league is open, at the hour the clock shows
CheckMarketLockout ==
    /\ \E l \in Leagues :
        lockout' = [league |-> l, now |-> clock,
                    ret |-> IF check_market_lockout(config[l], clock) THEN "True" ELSE "False"]
    /\ UNCHANGED <<budget, snapshot, roster, ops, config, matches, last, clock, args, metrics, query>>

\* an hour passes
Tick ==
    /\ clock < MaxClock
    /\ clock' = clock + 1
    /\ UNCHANGED <<budget, snapshot, roster, ops, config, matches, last, lockout, args, metrics, query>>

\* ---------------------------------------------------------------------- init
\* The stores as the service finds them: three managers in two leagues, p2 owned
\* in league L1, p1 owned in league L2 and free in L1.
roster_row(id, m, slug, price) ==
    [id |-> id, manager_id |-> m, player_slug |-> slug, purchase_price |-> price,
     clause |-> price, value_when_signed |-> price, accumulated_points |-> 0,
     is_amortized |-> FALSE, lineup_status |-> "reserve", is_captain |-> FALSE,
     signed_at |-> 0, locked_until |-> Null]

\* Manager.budget of each manager when the ledger starts: m2 is in debt
InitialBudget ==
    [m \in Managers |-> CASE m = "m1" -> 5000000 [] m = "m2" -> 0 - 7000000 [] OTHER -> 12000000]

InitialRoster == {roster_row(1, "m2", "p2", 4000000), roster_row(2, "m3", "p1", 12000000)}

\* league configuration and schedule, as found: a limit of one shield per cycle
\* with no schedule, with a schedule that starts on day 1 (day 0 is pre-season),
\* with one that starts on day 0, and no limit with premium shields
ScheduleFromDay1 ==
    {[jornada |-> 1, date |-> Some(1)], [jornada |-> 1, date |-> Some(2)],
     [jornada |-> 2, date |-> Some(2)], [jornada |-> 3, date |-> Null]}
ScheduleFromDay0 == {[jornada |-> 1, date |-> Some(0)], [jornada |-> 2, date |-> Some(1)]}

InitialSettings ==
    {[config |-> [max_shields_per_player_per_journey |-> 1], matches |-> {}],
     [config |-> [max_shields_per_player_per_journey |-> 1], matches |-> ScheduleFromDay1],
     [config |-> [max_shields_per_player_per_journey |-> 1], matches |-> ScheduleFromDay0],
     [config |-> [max_shields_per_player_per_journey |-> 0, premium_enabled |-> TRUE],
      matches |-> ScheduleFromDay1]}

NoLockoutCall == [league |-> "none", now |-> 0, ret |-> "none"]
NoArgs == [market_history |-> <<>>]

Init ==
    /\ budget = InitialBudget
    /\ snapshot = [m \in Managers |-> 50000000]
    /\ roster = InitialRoster
    /\ ops = <<>>
    /\ \E i \in InitialSettings :
        /\ config = [l \in Leagues |-> i.config]
        /\ matches = i.matches
    /\ last = [op |-> "none", ret |-> "none", exit |-> "none",
               m |-> NoManager, m2 |-> NoManager, slug |-> "none", amt |-> 0, item |-> 0,
               payment_type |-> "none"]
    /\ clock = 0
    /\ lockout = NoLockoutCall
    /\ args = NoArgs
    /\ metrics = Null
    /\ query = NoQuery

Next ==
    \/ Sign
    \/ Sell
    \/ IncreaseClause
    \/ Protect
    \/ Transfer
    \/ DistributePayment

Spec == Init /\ [][Next]_vars

\* ------------------------------------------- the clause lockout on its own
\* kickoffs in hours: none, in a few hours, more than a day ahead, not yet dated
LockoutSchedules ==
    {{},
     {[jornada |-> 1, date |-> Some(3)]},
     {[jornada |-> 1, date |-> Some(1)], [jornada |-> 1, date |-> Some(3)]},
     {[jornada |-> 1, date |-> Null]},
     {[jornada |-> 1, date |-> Some(4)], [jornada |-> 2, date |-> Null]},
     {[jornada |-> 1, date |-> Some(2)], [jornada |-> 2, date |-> Some(27)]},
     {[jornada |-> 1, date |-> Some(27)]}}

\* clause_lockout_hours: not configured, switched off (0, negative), 2 and 3 hours
LockoutConfigs ==
    {[shield_duration |-> 1],
     [clause_lockout_hours |-> 0],
     [clause_lockout_hours |-> 0 - 1],
     [clause_lockout_hours |-> 2],
     [clause_lockout_hours |-> 3]}

LockoutInit ==
    /\ budget = [m \in Managers |-> 0]
    /\ snapshot = [m \in Managers |-> 0]
    /\ roster = {}
    /\ ops = <<>>
    /\ config \in [Leagues -> LockoutConfigs]
    /\ matches \in LockoutSchedules
    /\ last = [op |-> "none", ret |-> "none", exit |-> "none",
               m |-> NoManager, m2 |-> NoManager, slug |-> "none", amt |-> 0, item |-> 0,
               payment_type |-> "none"]
    /\ clock = 0
    /\ lockout = NoLockoutCall
    /\ args = NoArgs
    /\ metrics = Null
    /\ query = NoQuery

LockoutNext ==
    \/ CheckMarketLockout
    \/ Tick

LockoutSpec == LockoutInit /\ [][LockoutNext]_vars

\* =========================================================================
\* calculate_derived_metrics of src/core/calculators/metrics_calculator.py.
\* A value read from the scraped dicts is a pair (t, v): an int, a numeric
\* text, a non-numeric text, None, or "missing" when the key is absent.
\* round(x, 2) results are held in hundredths, round(x, 1) results in tenths.
\* =========================================================================
IntVal(n) == [t |-> "int", v |-> n]
NumText(n) == [t |-> "numstr", v |-> n]
Text == [t |-> "str", v |-> 0]
None == [t |-> "none", v |-> 0]
Missing == [t |-> "missing", v |-> 0]

\* try: float(d.get(key, 0)) / int(d.get(key, 0)); except (ValueError, TypeError): 0
to_number(x) ==
    CASE x.t = "int" -> x.v
      [] x.t = "numstr" -> x.v
      [] x.t = "missing" -> 0
      [] OTHER -> 0

RECURSIVE sum(_)
sum(xs) == IF xs = <<>> THEN 0 ELSE xs[1] + sum(Tail(xs))

max(xs) == CHOOSE x \in {xs[i] : i \in 1..Len(xs)} : \A i \in 1..Len(xs) : xs[i] <= x
min(xs) == CHOOSE x \in {xs[i] : i \in 1..Len(xs)} : \A i \in 1..Len(xs) : x <= xs[i]

\* xs[-k:]
\* faulty variant: xs[:k], the oldest k entries
first_n(xs, k) == IF Len(xs) <= k THEN xs ELSE SubSeq(xs, 1, k)

last_n(xs, k) == IF Len(xs) <= k THEN xs ELSE SubSeq(xs, Len(xs) - k + 1, Len(xs))

\* round(n / d, digits) for d > 0, as the integer nearest to n / d with n already
\* scaled by 10^digits; a tie goes to the even neighbour
round(n, d) ==
    LET q == n \div d
        r == n % d
    IN IF 2 * r < d THEN q
       ELSE IF 2 * r > d THEN q + 1
       ELSE IF q % 2 = 0 THEN q ELSE q + 1

\* a division: Null stands for ZeroDivisionError
divide(n, d) == IF d = 0 THEN Null ELSE Some(round(n, d))

\* the test "> 0" that stands before each division
\* faulty variant: ">= 0", which lets a zero denominator through
is_not_negative(n) == n >= 0

is_positive(n) == n > 0

\* round(statistics.stdev(xs), 2) in hundredths, for len(xs) > 1: the h with
\* (h - 1/2)^2 <= 10000 * variance < (h + 1/2)^2, variance = (n*sum(x^2) - sum(x)^2) / (n*(n-1))
stdev(xs) ==
    LET n == Len(xs)
        squares == [i \in 1..n |-> xs[i] * xs[i]]
        a == 40000 * (n * sum(squares) - sum(xs) * sum(xs))
        b == n * (n - 1)
    IN CHOOSE h \in 0..(100 * (max(xs) - min(xs))) :
        /\ (2 * h - 1) * (2 * h - 1) * b <= a \/ h = 0
        /\ a < (2 * h + 1) * (2 * h + 1) * b

\* values[-8], the value a week ago (len(values) >= 8)
\* faulty variant: values[-7]
val_week_ago_short(values) == values[Len(values) - 6]

val_week_ago(values) == values[Len(values) - 7]

\* schedule_map: str(ff_match_id) -> home_team slug, later entries overwriting
\* earlier ones; entries without an id are skipped. home_team absent gives
\* the slug None; home_team null raises AttributeError (None.get)
schedule_raises(schedule_list) ==
    \E i \in 1..Len(schedule_list) :
        schedule_list[i].ff_match_id # 0 /\ schedule_list[i].home_team = "none"

schedule_map(schedule_list) ==
    LET listed == {i \in 1..Len(schedule_list) : schedule_list[i].ff_match_id # 0}
        ids == {schedule_list[i].ff_match_id : i \in listed}
        latest(mid) == CHOOSE i \in listed :
                          /\ schedule_list[i].ff_match_id = mid
                          /\ \A j \in listed : schedule_list[j].ff_match_id = mid => j <= i
    IN [mid \in ids |-> IF schedule_list[latest(mid)].home_team = "map"
                        THEN schedule_list[latest(mid)].slug ELSE "None"]

\* the per-match extraction of the loop
puntos(match) == to_number(match.fantasy_points_total)

\* minutes_played absent reads as {}; anything that is not a map has no .get
minutes_raises(match) == match.minutes_played \notin {"map", "missing"}

minutes(match) ==
    IF match.minutes_played = "map" THEN to_number(match.minutes_value) ELSE 0

\* match.get('status', 'alineable') == 'alineable'
is_available(match) == match.status \in {"alineable", "missing"}

is_home(match, smap, team_slug) ==
    /\ match.match_id # 0
    /\ match.match_id \in DOMAIN smap
    /\ smap[match.match_id] = team_slug

\* the points of the records the loop keeps for a list
points_of(records) == [i \in 1..Len(records) |-> puntos(records[i])]

raised(error) == [raised |-> TRUE, error |-> error]

calculate_derived_metrics(stats_summary, player_stats, market_history, current_market_value, team_slug, schedule_list, threshold) ==
    \* 0. schedule map
    IF schedule_raises(schedule_list) THEN raised("AttributeError")
    \* 1. market metrics: entry['value'], then max / min / statistics.mean
    ELSE IF \E i \in 1..Len(market_history) : market_history[i].value.t = "missing"
    THEN raised("KeyError")
    ELSE IF \E i \in 1..Len(market_history) : market_history[i].value.t # "int"
    THEN raised("TypeError")
    \* 2. summary: stats_summary.get('big_stats', {}).get(...)
    ELSE IF stats_summary.big_stats = "none" \/ stats_summary.info_stats = "none"
    THEN raised("AttributeError")
    \* 3. the loop over player_stats
    ELSE IF \E i \in 1..Len(player_stats) : minutes_raises(player_stats[i])
    THEN raised("AttributeError")
    ELSE
    LET smap == schedule_map(schedule_list)
        values == [i \in 1..Len(market_history) |-> market_history[i].value.v]
        n == Len(values)
        diff_day == IF n >= 2 THEN values[n] - values[n - 1] ELSE 0
        perc_daily_trend ==
            IF n >= 2 /\ is_positive(values[n - 1])
            THEN divide(diff_day * 10000, values[n - 1]) ELSE Some(0)
        diff_week == IF n >= 8 THEN values[n] - val_week_ago(values) ELSE 0
        perc_weekly_trend ==
            IF n >= 8 /\ is_positive(val_week_ago(values))
            THEN divide(diff_week * 10000, val_week_ago(values)) ELSE Some(0)
        count_played ==
            IF stats_summary.big_stats = "map" THEN to_number(stats_summary.partidos_jugados) ELSE 0
        count_bench_unused ==
            IF stats_summary.info_stats = "map" THEN to_number(stats_summary.convocado_sin_jugar) ELSE 0
        count_starters ==
            IF stats_summary.big_stats = "map" THEN to_number(stats_summary.titular) ELSE 0
        count_available == count_played + count_bench_unused
        points_history_available == points_of(SelectSeq(player_stats, is_available))
        points_home_list ==
            points_of(SelectSeq(player_stats, LAMBDA m : minutes(m) > 0 /\ is_home(m, smap, team_slug)))
        points_away_list ==
            points_of(SelectSeq(player_stats, LAMBDA m : minutes(m) > 0 /\ ~is_home(m, smap, team_slug)))
        total_minutes == sum([i \in 1..Len(player_stats) |-> minutes(player_stats[i])])
        total_points == sum(points_history_available)
        avg_points_net ==
            IF is_positive(count_played) THEN divide(total_points * 100, count_played) ELSE Some(0)
        avg_minutes ==
            IF is_positive(count_played) THEN divide(total_minutes * 10, count_played) ELSE Some(0)
        avg_points_gross ==
            IF is_positive(count_available) THEN divide(total_points * 100, count_available)
            ELSE Some(0)
        perc_starter ==
            IF is_positive(count_available) THEN divide(count_starters * 10000, count_available)
            ELSE Some(0)
        matches_with_points ==
            Len(points_of(SelectSeq(player_stats, LAMBDA m : is_available(m) /\ puntos(m) >= threshold)))
        regularity ==
            IF is_positive(count_available) THEN divide(matches_with_points * 1000, count_available)
            ELSE Some(0)
        volatility ==
            IF is_positive(count_available) /\ Len(points_history_available) > 1
            THEN stdev(points_history_available) ELSE 0
        avg_points_home ==
            IF is_positive(Len(points_home_list))
            THEN divide(sum(points_home_list) * 100, Len(points_home_list)) ELSE Some(0)
        avg_points_away ==
            IF is_positive(Len(points_away_list))
            THEN divide(sum(points_away_list) * 100, Len(points_away_list)) ELSE Some(0)
        last_3 == last_n(points_history_available, 3)
        last_5 == last_n(points_history_available, 5)
        avg_last_3 ==
            IF points_history_available # <<>> THEN divide(sum(last_3) * 100, Len(last_3))
            ELSE Some(0)
        avg_last_5 ==
            IF points_history_available # <<>> THEN divide(sum(last_5) * 100, Len(last_5))
            ELSE Some(0)
        \* total_points / (current_market_value / 1_000_000), in hundredths
        rentability ==
            IF is_positive(current_market_value)
            THEN divide(total_points * 100000000, current_market_value) ELSE Some(0)
    IN
    IF Null \in {perc_daily_trend, perc_weekly_trend, avg_points_net, avg_minutes,
                 avg_points_gross, perc_starter, regularity, avg_points_home,
                 avg_points_away, avg_last_3, avg_last_5, rentability}
    THEN raised("ZeroDivisionError")
    ELSE
    [raised |-> FALSE,
     error |-> "none",
     market_val_max |-> IF n > 0 THEN max(values) ELSE 0,
     market_val_min |-> IF n > 0 THEN min(values) ELSE 0,
     market_val_avg |-> IF n > 0 THEN sum(values) \div n ELSE 0,
     rentability |-> rentability[1],
     daily_trend |-> diff_day,
     weekly_trend |-> diff_week,
     perc_daily_trend |-> perc_daily_trend[1],
     perc_weekly_trend |-> perc_weekly_trend[1],
     total_points |-> total_points,
     total_points_home |-> sum(points_home_list),
     total_points_away |-> sum(points_away_list),
     avg_points_net |-> avg_points_net[1],
     avg_points_gross |-> avg_points_gross[1],
     avg_points_home |-> avg_points_home[1],
     avg_points_away |-> avg_points_away[1],
     avg_last_3 |-> avg_last_3[1],
     avg_last_5 |-> avg_last_5[1],
     regularity |-> regularity[1],
     volatility |-> volatility,
     perc_starter |-> perc_starter[1],
     avg_minutes |-> avg_minutes[1]]

\* ------------------------------------------------ the calculator's inputs
\* longest match list of the form cases
MaxStats == 6
\* longest market history
MaxHistory == 9

SeqsUpTo(S, k) == UNION {[1..len -> S] : len \in 0..k}

match_record(points, shape, value, status, match_id) ==
    [fantasy_points_total |-> points, minutes_played |-> shape, minutes_value |-> value,
     status |-> status, match_id |-> match_id]

\* a full home match, a match on the bench, an away match played while
\* flagged injured
FormRecords ==
    {match_record(IntVal(3), "map", IntVal(90), "alineable", 1),
     match_record(IntVal(0), "map", IntVal(0), "alineable", 2),
     match_record(IntVal(2), "map", IntVal(90), "lesionado", 2)}

\* the home match with one field at a time missing, null, text or misshapen,
\* with minutes below 0, and with a match id the schedule does not list
EdgeRecords ==
    {match_record(IntVal(3), "map", IntVal(90), "alineable", 1),
     match_record(Missing, "map", IntVal(90), "alineable", 1),
     match_record(None, "map", IntVal(90), "alineable", 1),
     match_record(Text, "map", IntVal(90), "alineable", 1),
     match_record(NumText(2), "map", NumText(45), "alineable", 1),
     match_record(IntVal(3), "missing", Missing, "alineable", 1),
     match_record(IntVal(3), "none", Missing, "alineable", 1),
     match_record(IntVal(3), "int", Missing, "alineable", 1),
     match_record(IntVal(3), "map", Missing, "alineable", 1),
     match_record(IntVal(3), "map", None, "alineable", 1),
     match_record(IntVal(3), "map", Text, "alineable", 1),
     match_record(IntVal(3), "map", IntVal(0 - 5), "alineable", 1),
     match_record(IntVal(3), "map", IntVal(90), "missing", 1),
     match_record(IntVal(3), "map", IntVal(90), "none", 1),
     match_record(IntVal(3), "map", IntVal(90), "alineable", 0),
     match_record(IntVal(3), "map", IntVal(90), "alineable", 3)}

\* one such record alone, before and after a full home match
EdgeLists ==
    LET full == match_record(IntVal(3), "map", IntVal(90), "alineable", 1)
    IN UNION {{<<e>>, <<e, full>>, <<full, e>>} : e \in EdgeRecords}

summary(big_stats, partidos_jugados, titular, info_stats, convocado_sin_jugar) ==
    [big_stats |-> big_stats, partidos_jugados |-> partidos_jugados, titular |-> titular,
     info_stats |-> info_stats, convocado_sin_jugar |-> convocado_sin_jugar]

\* two played, one started, one on the bench, as the scraper's texts
SeasonSummary == summary("map", NumText(2), NumText(1), "map", NumText(1))
NoMatchesSummary == summary("map", IntVal(0), IntVal(0), "map", IntVal(0))
Summaries ==
    {SeasonSummary,
     NoMatchesSummary,
     summary("map", IntVal(1), IntVal(1), "map", IntVal(0)),
     summary("missing", Missing, Missing, "missing", Missing),
     summary("map", Text, None, "map", Missing),
     summary("none", Missing, Missing, "map", IntVal(1))}

schedule_entry(ff_match_id, home_team, slug) ==
    [ff_match_id |-> ff_match_id, home_team |-> home_team, slug |-> slug]

Schedule == <<schedule_entry(1, "map", "teamA"), schedule_entry(2, "map", "teamB")>>
Schedules ==
    {<<>>,
     Schedule,
     <<schedule_entry(0, "none", "None"), schedule_entry(1, "missing", "None")>>,
     <<schedule_entry(1, "none", "None")>>}

HistoryValues == {IntVal(0), IntVal(10), IntVal(12)}
\* every short history, entries without a usable value included, and the
\* histories of 7 entries and more whose first two and last two entries vary
MarketHistories ==
    {[i \in DOMAIN h |-> [value |-> h[i]]] :
        h \in SeqsUpTo(HistoryValues \cup {Missing, None, Text}, 2)
            \cup {<<a, b>> \o [i \in 1..(len - 4) |-> IntVal(10)] \o <<c, d>> :
                    a \in HistoryValues, b \in HistoryValues, c \in HistoryValues,
                    d \in HistoryValues, len \in 7..MaxHistory}}

arguments(stats_summary, player_stats, market_history, current_market_value, schedule_list) ==
    [stats_summary |-> stats_summary, player_stats |-> player_stats,
     market_history |-> market_history, current_market_value |-> current_market_value,
     team_slug |-> "teamA", schedule_list |-> schedule_list, threshold |-> 2]

MetricsInputs ==
    {arguments(NoMatchesSummary, <<>>, h, 0, <<>>) : h \in MarketHistories}
    \cup {arguments(SeasonSummary, ps, <<>>, 12000000, Schedule) :
            ps \in SeqsUpTo(FormRecords, MaxStats)}
    \cup {arguments(s, ps, <<>>, 12000000, Schedule) :
            s \in {SeasonSummary, NoMatchesSummary}, ps \in EdgeLists}
    \cup {arguments(s, ps, h, v, sl) :
            s \in Summaries,
            ps \in SeqsUpTo({match_record(IntVal(3), "map", IntVal(90), "alineable", 1),
                             match_record(IntVal(0), "map", IntVal(0), "alineable", 2)}, 1),
            h \in {<<>>, <<[value |-> IntVal(0)], [value |-> IntVal(12)]>>},
            v \in {0 - 1, 0, 12000000},
            sl \in Schedules}

CalculateDerivedMetrics ==
    /\ metrics = Null
    /\ metrics' = Some(calculate_derived_metrics(args.stats_summary, args.player_stats,
                        args.market_history, args.current_market_value, args.team_slug,
                        args.schedule_list, args.threshold))
    /\ UNCHANGED <<budget, snapshot, roster, ops, config, matches, last, clock, lockout, args, query>>

MetricsInit ==
    /\ budget = [m \in Managers |-> 0]
    /\ snapshot = [m \in Managers |-> 0]
    /\ roster = {}
    /\ ops = <<>>
    /\ config = [l \in Leagues |-> [shield_duration |-> 1]]
    /\ matches = {}
    /\ last = [op |-> "none", ret |-> "none", exit |-> "none",
               m |-> NoManager, m2 |-> NoManager, slug |-> "none", amt |-> 0, item |-> 0,
               payment_type |-> "none"]
    /\ clock = 0
    /\ lockout = NoLockoutCall
    /\ args \in MetricsInputs
    /\ metrics = Null
    /\ query = NoQuery

MetricsNext == CalculateDerivedMetrics

MetricsSpec == MetricsInit /\ [][MetricsNext]_vars

\* =========================================================================
\* The read queries of src/core/services/user/league_service.py over the
\* ledger. The store is SQLite: a query with no ORDER BY gives its rows in
\* rowid (insertion) order.
\* =========================================================================
\* the managers table in rowid order
ManagerRows == <<"m1", "m2", "m3">>
\* league ids a caller may ask about; "L9" is no league
LeagueIds == Leagues \cup {"L9"}
\* op_type arguments of get_detailed_operations: None (the default), "ALL", ""
\* and two operation types
OpTypeArgs == {Null, Some("ALL"), Some(""), Some("LOCK"), Some("BUY")}
\* op arguments of get_transfers_leaderboard
LeaderboardOps == {"BUY", "SELL", "ALL"}

\* Manager.purchases: the operations whose buyer_id is the manager
purchases(S, m) == SelectSeq(S.ops, LAMBDA o : o.buyer_id = m)
\* Manager.sales: the operations whose seller_id is the manager
sales(S, m) == SelectSeq(S.ops, LAMBDA o : o.seller_id = m)

\* sorted(rows, key=..., reverse=True): descending by key, rows of equal key
\* in the order they came in
sorted_reverse(rows, key) ==
    LET n == Len(rows)
        before(j, i) == key[rows[j]] > key[rows[i]] \/ (key[rows[j]] = key[rows[i]] /\ j < i)
        position(i) == 1 + Cardinality({j \in 1..n : before(j, i)})
    IN [k \in 1..n |-> rows[CHOOSE i \in 1..n : position(i) = k]]

\* LeagueService.get_transfers_leaderboard
get_transfers_leaderboard(S, league, op) ==
    LET leaderboard == SelectSeq(ManagerRows, LAMBDA m : league_id[m] = league)
        key == [m \in Managers |->
                  CASE op = "BUY" -> Len(purchases(S, m))
                    [] op = "SELL" -> Len(sales(S, m))
                    [] OTHER -> Len(purchases(S, m)) + Len(sales(S, m))]
    IN IF leaderboard = <<>> THEN Null
       ELSE Some(sorted_reverse(leaderboard, key))

\* bool(op_type): None and "" are falsy
truthy(op_type) == op_type # Null /\ op_type # Some("")

\* LeagueService.get_detailed_operations; op_type == None is SQL "IS NULL",
\* and no operations row has a NULL op_type
get_detailed_operations(S, league, op_type) ==
    LET rows == SelectSeq(S.ops, LAMBDA o : o.league_id = league)
    IN IF rows = <<>> THEN Null
       ELSE IF truthy(op_type) \/ op_type # Some("ALL")
            THEN Some(SelectSeq(rows, LAMBDA o : op_type # Null /\ o.op_type = op_type[1]))
            ELSE Some(rows)

GetTransfersLeaderboard ==
    /\ \E l \in LeagueIds, o \in LeaderboardOps :
        query' = [fn |-> "get_transfers_leaderboard", league_id |-> l, op |-> Some(o),
                  answer |-> get_transfers_leaderboard(Store, l, o)]
    /\ UNCHANGED <<budget, snapshot, roster, ops, config, matches, last, clock, lockout, args, metrics>>

GetDetailedOperations ==
    /\ \E l \in LeagueIds, t \in OpTypeArgs :
        query' = [fn |-> "get_detailed_operations", league_id |-> l, op |-> t,
                  answer |-> get_detailed_operations(Store, l, t)]
    /\ UNCHANGED <<budget, snapshot, roster, ops, config, matches, last, clock, lockout, args, metrics>>

\* the ledger with its readers: protect_player writes the rows, the two
\* queries read them
LeagueInit == Init

LeagueNext ==
    \/ Protect
    \/ GetTransfersLeaderboard
    \/ GetDetailedOperations

LeagueSpec == LeagueInit /\ [][LeagueNext]_vars

\* ================================================================== claims
Declined == {"None", "False"}
Ledger == <<budget, roster, ops>>
max_negative_balance_percentage(m) ==
    cfg_get(config[league_id[m]], "max_negative_balance_percentage", DefaultMaxNegativeBalancePct)
\* the debt ceiling of the claim, team_value_snapshot * percentage / 100, as the
\* lowest integer budget it allows
DebtCeiling(m) == (snapshot[m] * max_negative_balance_percentage(m)) \div 100
OwnersInLeague(lg, slug) ==
    {it \in roster : league_id[it.manager_id] = lg /\ it.player_slug = slug}

C2_Ownership ==
    /\ [](\A a \in roster, b \in roster :
            (league_id[a.manager_id] = league_id[b.manager_id] /\ a.player_slug = b.player_slug)
                => a = b)
    /\ [][(/\ last'.op = "sign"
           /\ last'.m \in Managers
           /\ budget[last'.m] - last'.amt >= 0 - DebtCeiling(last'.m)
           /\ OwnersInLeague(league_id[last'.m], last'.slug) # {})
          => (last'.ret = "None" /\ last'.exit = "already_owned" /\ roster' = roster)]_vars

\* a solvent manager asked for a player that a rival of the same league owns
C2_Witness ==
    /\ last.op = "sign"
    /\ last.exit = "already_owned"
    /\ \E it \in roster :
        /\ it.player_slug = last.slug
        /\ it.manager_id # last.m
        /\ league_id[it.manager_id] = league_id[last.m]

\* the cycles of the schedule: before the first kickoff, between consecutive
\* gameweek kickoffs, and from the last kickoff on
Cycles ==
    LET n == Len(gw_starts) IN
    IF n = 0 THEN {[from |-> 0 - DateMax, to |-> DateMax]}
    ELSE {[from |-> 0 - DateMax, to |-> gw_starts[1].start_date]}
         \cup {[from |-> gw_starts[i].start_date,
                to |-> IF i < n THEN gw_starts[i + 1].start_date ELSE DateMax] : i \in 1..n}

LocksInCycle(m, slug, cy) ==
    Cardinality({i \in 1..Len(ops) :
        /\ ops[i].op_type = "LOCK"
        /\ ops[i].buyer_id = m
        /\ ops[i].player_slug = Some(slug)
        /\ ops[i].date >= cy.from
        /\ ops[i].date < cy.to})

\* C3: with a limit above 0, the LOCK operations of one manager for one player
\* dated inside one gameweek cycle never number more than the limit.
C3_ShieldLimit ==
    \A m \in Managers, slug \in Slugs, cy \in Cycles :
        LET limit == cfg_get(config[league_id[m]], "max_shields_per_player_per_journey",
                             DefaultMaxShields)
        IN limit > 0 => LocksInCycle(m, slug, cy) <= limit

\* C4: a signing whose preconditions hold succeeds, with the documented effects.
C4_SignSucceeds ==
    [][(/\ last'.op = "sign"
        /\ last'.m \in Managers
        /\ budget[last'.m] - last'.amt >= 0 - DebtCeiling(last'.m)
        /\ OwnersInLeague(league_id[last'.m], last'.slug) = {}
        /\ last'.slug \in RealPlayers
        /\ last'.amt >= market_value[last'.slug]
        /\ last'.exit # "commit_failed")
       => (/\ last'.ret = "item"
           /\ budget' = [budget EXCEPT ![last'.m] = @ - last'.amt]
           /\ Len(ops') = Len(ops) + 1
           /\ ops'[Len(ops')].op_type = "BUY"
           /\ ops'[Len(ops')].amount = 0 - last'.amt
           /\ \E it \in roster' \ roster :
                /\ roster' = roster \cup {it}
                /\ it.manager_id = last'.m
                /\ it.player_slug = last'.slug
                /\ it.clause = last'.amt
                /\ it.value_when_signed = market_value[last'.slug]
                /\ it.is_amortized = (market_value[last'.slug] # last'.amt)
                /\ it.lineup_status = "reserve"
                /\ it.locked_until = Some(ops'[Len(ops')].date
                     + cfg_get(config[league_id[last'.m]], "purchase_shield_duration",
                               DefaultPurchaseShieldDuration)))]_vars

\* C5: a call that returns the failure signal leaves budgets, roster items and
\* the Operation log as they were.
C5_DeclinedNoMutation ==
    [][last'.ret \in Declined => Ledger' = Ledger]_vars

\* a call failed after it had already changed the budget or the roster item in
\* the session, and a signing was declined for passing the debt ceiling
C5_Witness ==
    \/ /\ last.op \in {"increase_clause", "transfer", "distribute_payment"}
       /\ last.exit = "format_error"
       /\ last.ret \in Declined
    \/ /\ last.op = "protect"
       /\ last.exit = "commit_failed"

\* the exits that are business-rule violations
BusinessRuleExits ==
    {"manager_not_found", "item_not_found", "insolvent", "insufficient_funds", "already_owned",
     "below_market_value", "limit_reached", "different_leagues"}

\* C6: a business-rule violation returns None/False and raises nothing.
C6_NoRaise == last.exit \in BusinessRuleExits => last.ret \in Declined

\* C7: a clause increase by the owner with budget >= amount succeeds: clause
\* + 2 * amount, budget - amount, one CLAUSE_INCREASE Operation of -amount.
C7_IncreaseClauseSucceeds ==
    [][(/\ last'.op = "increase_clause"
        /\ last'.m \in Managers
        /\ \E it \in roster : it.manager_id = last'.m /\ it.player_slug = last'.slug
        /\ budget[last'.m] >= last'.amt
        /\ last'.exit # "commit_failed")
       => (/\ last'.ret = "item"
           /\ budget' = [budget EXCEPT ![last'.m] = @ - last'.amt]
           /\ \E old \in roster, new \in roster' :
                /\ old.manager_id = last'.m /\ old.player_slug = last'.slug
                /\ new.id = old.id
                /\ new.clause = old.clause + 2 * last'.amt
           /\ Len(ops') = Len(ops) + 1
           /\ ops'[Len(ops')].op_type = "CLAUSE_INCREASE"
           /\ ops'[Len(ops')].amount = 0 - last'.amt)]_vars

\* C8: a transfer between two managers of one league, the seller owning the
\* player, price >= market value and buyer budget >= price, succeeds: the item
\* moves to the buyer, price moves from buyer to seller, one TRANSFER Operation.
C8_TransferSucceeds ==
    [][(/\ last'.op = "transfer"
        /\ last'.m \in Managers /\ last'.m2 \in Managers
        /\ league_id[last'.m] = league_id[last'.m2]
        /\ \E it \in roster : it.manager_id = last'.m2 /\ it.player_slug = last'.slug
        /\ last'.slug \in RealPlayers
        /\ last'.amt >= market_value[last'.slug]
        /\ budget[last'.m] >= last'.amt
        /\ last'.m # last'.m2
        /\ last'.exit # "commit_failed")
       => (/\ last'.ret = "item"
           /\ budget'[last'.m] = budget[last'.m] - last'.amt
           /\ budget'[last'.m2] = budget[last'.m2] + last'.amt
           /\ \E it \in roster' : it.manager_id = last'.m /\ it.player_slug = last'.slug
           /\ ~\E it \in roster' : it.manager_id = last'.m2 /\ it.player_slug = last'.slug
           /\ Len(ops') = Len(ops) + 1
           /\ ops'[Len(ops')].op_type = "TRANSFER"
           /\ ops'[Len(ops')].buyer_id = last'.m
           /\ ops'[Len(ops')].seller_id = last'.m2
           /\ ops'[Len(ops')].amount = last'.amt)]_vars

\* C9: selling an existing RosterItem succeeds: the item is removed, its
\* manager's budget grows by the sale price, one SALE Operation of +price
\* with seller = the manager and no buyer.
C9_SellSucceeds ==
    [][(/\ last'.op = "sell"
        /\ \E it \in roster : it.id = last'.item
        /\ last'.exit # "commit_failed")
       => (/\ last'.ret = "True"
           /\ \E it \in roster :
                /\ it.id = last'.item
                /\ roster' = roster \ {it}
                /\ budget' = [budget EXCEPT ![it.manager_id] = @ + last'.amt]
                /\ Len(ops') = Len(ops) + 1
                /\ ops'[Len(ops')].op_type = "SALE"
                /\ ops'[Len(ops')].amount = last'.amt
                /\ ops'[Len(ops')].seller_id = it.manager_id
                /\ ops'[Len(ops')].buyer_id = NoManager)]_vars

\* C10: a payment to an existing manager succeeds: budget + amount and one
\* Operation of that amount and type.
C10_PaymentSucceeds ==
    [][(/\ last'.op = "distribute_payment"
        /\ last'.m \in Managers
        /\ last'.exit # "commit_failed")
       => (/\ last'.ret = "True"
           /\ budget' = [budget EXCEPT ![last'.m] = @ + last'.amt]
           /\ Len(ops') = Len(ops) + 1
           /\ ops'[Len(ops')].op_type = last'.payment_type
           /\ ops'[Len(ops')].amount = last'.amt)]_vars

\* the row a call has just appended to the Operation log
NewRow == ops'[Len(ops')]
OneRowAppended == Len(ops') = Len(ops) + 1 /\ SubSeq(ops', 1, Len(ops)) = ops

\* C11: an accepted protect_player sets the item's locked_until to the
\* transaction date + shield_duration days (twice that with premium_enabled),
\* appends exactly one LOCK Operation of amount 0 whose buyer is the manager,
\* and changes no budget.
C11_ProtectEffects ==
    [][(last'.op = "protect" /\ last'.exit = "accepted")
       => LET c == config[league_id[last'.m]]
              duration == IF "shield_duration" \in DOMAIN c THEN c.shield_duration ELSE 1
              premium == "premium_enabled" \in DOMAIN c /\ c.premium_enabled
              length == IF premium THEN 2 * duration ELSE duration
          IN /\ last'.ret = "True"
             /\ budget' = budget
             /\ OneRowAppended
             /\ NewRow.op_type = "LOCK"
             /\ NewRow.amount = 0
             /\ NewRow.buyer_id = last'.m
             /\ NewRow.seller_id = NoManager
             /\ NewRow.player_slug = Some(last'.slug)
             /\ \E it \in roster :
                  /\ it.manager_id = last'.m
                  /\ it.player_slug = last'.slug
                  /\ roster' = (roster \ {it})
                        \cup {[it EXCEPT !.locked_until = Some(NewRow.date + length)]}]_vars

\* a premium shield has been applied: the latest call is an accepted
\* protect_player in a league with premium_enabled, and the item is locked for
\* twice the shield duration from the date of the LOCK row
C11_Witness ==
    /\ last.op = "protect"
    /\ last.exit = "accepted"
    /\ cfg_get(config[league_id[last.m]], "premium_enabled", FALSE)
    /\ Len(ops) >= 1
    /\ \E it \in roster :
        /\ it.manager_id = last.m
        /\ it.player_slug = last.slug
        /\ it.locked_until = Some(ops[Len(ops)].date + 2 * DefaultShieldDuration)

\* the budget and roster changes that belong to the appended row
RowChanges ==
    LET row == NewRow IN
    CASE row.op_type = "LOCK" ->
            /\ budget' = budget
            /\ \E it \in roster :
                /\ it.manager_id = row.buyer_id
                /\ Some(it.player_slug) = row.player_slug
                /\ \E new \in roster' :
                    /\ new.locked_until # Null
                    /\ new = [it EXCEPT !.locked_until = new.locked_until]
                    /\ roster' = (roster \ {it}) \cup {new}
      [] row.op_type = "BUY" ->
            /\ budget' = [budget EXCEPT ![row.buyer_id] = @ + row.amount]
            /\ \E it \in roster' \ roster :
                /\ roster' = roster \cup {it}
                /\ it.manager_id = row.buyer_id
                /\ Some(it.player_slug) = row.player_slug
      [] row.op_type = "SALE" ->
            /\ budget' = [budget EXCEPT ![row.seller_id] = @ + row.amount]
            /\ \E it \in roster \ roster' :
                /\ roster' = roster \ {it}
                /\ it.manager_id = row.seller_id
                /\ Some(it.player_slug) = row.player_slug
      [] row.op_type = "CLAUSE_INCREASE" ->
            /\ budget' = [budget EXCEPT ![row.buyer_id] = @ + row.amount]
            /\ \E it \in roster, new \in roster' :
                /\ it.manager_id = row.buyer_id
                /\ Some(it.player_slug) = row.player_slug
                /\ new.id = it.id
                /\ new.clause = it.clause - 2 * row.amount
                /\ roster' = (roster \ {it}) \cup {new}
      [] row.op_type = "TRANSFER" ->
            /\ budget' = [[budget EXCEPT ![row.buyer_id] = @ - row.amount]
                            EXCEPT ![row.seller_id] = @ + row.amount]
            /\ \E it \in roster, new \in roster' :
                /\ it.manager_id = row.seller_id
                /\ Some(it.player_slug) = row.player_slug
                /\ new.id = it.id
                /\ new.manager_id = row.buyer_id
                /\ roster' = (roster \ {it}) \cup {new}
      [] OTHER ->
            /\ row.op_type \in PaymentTypes
            /\ budget' = [budget EXCEPT ![row.seller_id] = @ + row.amount]
            /\ roster' = roster

\* C13: every call either is accepted and commits exactly one Operation row
\* together with all the budget and roster changes of that row, or commits
\* nothing at all (no row, no budget change, no roster change), a call that
\* fails in the middle included.
C13_AtomicAudit ==
    [][\/ /\ last'.exit = "accepted"
          /\ OneRowAppended
          /\ RowChanges
       \/ /\ last'.exit # "accepted"
          /\ Ledger' = Ledger]_vars

\* a call failed after it had changed a budget in the session, on a ledger
\* that holds a committed LOCK row and the lock that row stands for
C13_Witness ==
    /\ last.op \in {"increase_clause", "transfer", "distribute_payment"}
    /\ last.exit = "format_error"
    /\ Len(ops) >= 1
    /\ \A i \in 1..Len(ops) :
        /\ ops[i].op_type = "LOCK"
        /\ \E it \in roster :
            /\ it.manager_id = ops[i].buyer_id
            /\ Some(it.player_slug) = ops[i].player_slug
            /\ it.locked_until # Null

\* C14: the Operation log only grows at its end: every row of one state is
\* there, in its place and unchanged, in the next state.
C14_AppendOnly ==
    [][/\ Len(ops') >= Len(ops)
       /\ \A i \in 1..Len(ops) : ops'[i] = ops[i]]_vars

\* a second row has been appended behind a first one
C14_Witness ==
    /\ Len(ops) >= 2
    /\ last.exit = "accepted"
    /\ ops[1].op_type = "LOCK"

\* C15: a clause increase or a peer transfer that reaches the funds test with
\* the paying manager's budget below the amount is refused there and commits
\* nothing, also when the loose debt ceiling would still allow the payment;
\* and an accepted one leaves the paying manager's budget at 0 or above.
C15_StrictSolvency ==
    [][/\ (/\ last'.op = "increase_clause"
           /\ last'.m \in Managers
           /\ \E it \in roster : it.manager_id = last'.m /\ it.player_slug = last'.slug
           /\ budget[last'.m] < last'.amt)
          => (last'.exit = "insufficient_funds" /\ Ledger' = Ledger)
       /\ (/\ last'.op = "transfer"
           /\ last'.m \in Managers /\ last'.m2 \in Managers
           /\ league_id[last'.m] = league_id[last'.m2]
           /\ \E it \in roster : it.manager_id = last'.m2 /\ it.player_slug = last'.slug
           /\ last'.slug \in RealPlayers
           /\ last'.amt >= market_value[last'.slug]
           /\ budget[last'.m] < last'.amt)
          => (last'.exit = "insufficient_funds" /\ Ledger' = Ledger)
       /\ (last'.op \in {"increase_clause", "transfer"} /\ last'.exit = "accepted")
          => budget'[last'.m] >= 0]_vars

\* a buyer who could still borrow the price under the debt ceiling was refused
\* the transfer for lack of funds
C15_Witness ==
    /\ last.op = "transfer"
    /\ last.exit = "insufficient_funds"
    /\ budget[last.m] < last.amt
    /\ budget[last.m] - last.amt >= 0 - DebtCeiling(last.m)

\* C12: check_market_lockout answers closed exactly when the lockout hours are
\* above 0 and some match kicks off strictly after now and strictly less than
\* that many hours from now; a match exactly that many hours away, a past
\* match, a match without a date, and lockout hours of 0 or below leave it open.
C12_LockoutWindow ==
    lockout.ret # "none" =>
        LET c == config[lockout.league]
            hours == IF "clause_lockout_hours" \in DOMAIN c THEN c.clause_lockout_hours ELSE 24
            closing == {x \in matches : /\ x.date # Null
                                        /\ x.date[1] > lockout.now
                                        /\ x.date[1] - lockout.now < hours}
        IN /\ lockout.ret \in {"True", "False"}
           /\ lockout.ret = "False" <=> (hours > 0 /\ closing # {})

\* the market was found open with the next kickoff exactly lockout-hours away
C12_Witness ==
    /\ lockout.ret = "True"
    /\ cfg_get(config[lockout.league], "clause_lockout_hours", DefaultClauseLockoutHours) > 0
    /\ \E x \in matches :
        /\ x.date # Null
        /\ x.date[1] - lockout.now
             = cfg_get(config[lockout.league], "clause_lockout_hours", DefaultClauseLockoutHours)

\* ---- the calculator's claims
Computed == metrics # Null /\ ~metrics[1].raised
\* the values of the market history, oldest first
HistoryOf(a) == [i \in 1..Len(a.market_history) |-> a.market_history[i].value.v]
\* p is the fraction num / den rounded to the nearest unit
Nearest(p, num, den) ==
    LET off == p * den - num IN 2 * (IF off < 0 THEN 0 - off ELSE off) <= den
\* the available pool: the points of the records whose status is the sentinel
\* (also by default), oldest first
PoolOf(a) ==
    LET kept == SelectSeq(a.player_stats, LAMBDA r : r.status \in {"alineable", "missing"})
    IN [i \in 1..Len(kept) |-> puntos(kept[i])]
\* the records that were on the pitch
PlayedOf(a) == SelectSeq(a.player_stats, LAMBDA r : minutes(r) > 0)
PlayedCount(a) ==
    IF a.stats_summary.big_stats = "map" THEN to_number(a.stats_summary.partidos_jugados) ELSE 0
AvailableCount(a) ==
    PlayedCount(a)
    + (IF a.stats_summary.info_stats = "map" THEN to_number(a.stats_summary.convocado_sin_jugar)
       ELSE 0)

C17_Form ==
    Computed =>
        LET pool == PoolOf(args)
            n == Len(pool)
            window(k) == SubSeq(pool, IF n > k THEN n - k + 1 ELSE 1, n)
        IN IF n = 0
           THEN metrics[1].avg_last_3 = 0 /\ metrics[1].avg_last_5 = 0
           ELSE /\ Nearest(metrics[1].avg_last_3, 100 * sum(window(3)), Len(window(3)))
                /\ Nearest(metrics[1].avg_last_5, 100 * sum(window(5)), Len(window(5)))

\* six records, the latest one not available: a pool of four entries, so the
\* last-5 mean takes them all and the last-3 mean differs from it
C17_Witness ==
    /\ Computed
    /\ Len(args.player_stats) = 6
    /\ args.player_stats[6].status = "lesionado"
    /\ Len(PoolOf(args)) = 4
    /\ metrics[1].avg_last_3 # metrics[1].avg_last_5
    /\ metrics[1].avg_last_5 # 0

\* C18: no input makes the calculator divide by zero: with an available count
\* of 0, avg_points_gross, perc_starter and regularity stay 0; with 0 matches
\* played, avg_points_net and avg_minutes stay 0; with a current market value
\* of 0 or less, rentability stays 0; with an earlier history value of 0 the
\* percentage trend stays 0.
C18_GuardedDivisions ==
    metrics # Null =>
        IF metrics[1].raised THEN metrics[1].error # "ZeroDivisionError"
        ELSE LET m == metrics[1]
                 h == HistoryOf(args)
                 n == Len(h)
             IN /\ AvailableCount(args) = 0
                    => (m.avg_points_gross = 0 /\ m.perc_starter = 0 /\ m.regularity = 0)
                /\ PlayedCount(args) = 0 => (m.avg_points_net = 0 /\ m.avg_minutes = 0)
                /\ args.current_market_value <= 0 => m.rentability = 0
                /\ (n >= 2 /\ h[n - 1] = 0) => m.perc_daily_trend = 0
                /\ (n >= 8 /\ h[n - 7] = 0) => m.perc_weekly_trend = 0

\* a player with points on record but no match in the season summary, no
\* market value, and a history that starts at 0
C18_Witness ==
    /\ Computed
    /\ AvailableCount(args) = 0
    /\ PlayedCount(args) = 0
    /\ metrics[1].total_points > 0
    /\ args.current_market_value = 0
    /\ Len(args.market_history) = 2
    /\ HistoryOf(args)[1] = 0
    /\ metrics[1].daily_trend # 0

\* C19: whatever field of a match record, season summary, schedule entry or
\* history entry is missing, null, text or misshapen, the calculator raises
\* nothing and returns a metrics object; with an empty history and an empty
\* match list every metric is its default.
C19_NeverRaises ==
    metrics # Null =>
        /\ ~metrics[1].raised
        /\ (args.market_history = <<>> /\ args.player_stats = <<>>)
            => \A f \in DOMAIN metrics[1] \ {"raised", "error"} : metrics[1][f] = 0

\* C20: a record's points go to total_points and to the regularity pool iff
\* its status is the available sentinel, whatever its minutes; a record's
\* points go to the home/away totals, and its minutes to the minutes total
\* behind avg_minutes, iff its minutes are above 0.
C20_Availability ==
    Computed =>
        LET m == metrics[1]
            played == PlayedOf(args)
            scoring == SelectSeq(PoolOf(args), LAMBDA x : x >= args.threshold)
        IN /\ m.total_points = sum(PoolOf(args))
           /\ AvailableCount(args) > 0
                => Nearest(m.regularity, 1000 * Len(scoring), AvailableCount(args))
           /\ m.total_points_home + m.total_points_away
                = sum([i \in 1..Len(played) |-> puntos(played[i])])
           /\ PlayedCount(args) > 0
                => Nearest(m.avg_minutes,
                           10 * sum([i \in 1..Len(played) |-> minutes(played[i])]),
                           PlayedCount(args))

\* an increase_clause call by the owner of the player, with cash for the amount
IncreaseClauseByOwner ==
    /\ last'.op = "increase_clause"
    /\ last'.m \in Managers
    /\ \E it \in roster : it.manager_id = last'.m /\ it.player_slug = last'.slug
    /\ budget[last'.m] >= last'.amt
    /\ last'.exit # "commit_failed"

CycleOf(d) == CHOOSE cy \in Cycles : cy.from <= d /\ d < cy.to
LocksByManagerInCycle(m, cy) ==
    Cardinality({i \in 1..Len(ops) :
        /\ ops[i].op_type = "LOCK"
        /\ ops[i].buyer_id = m
        /\ ops[i].date >= cy.from
        /\ ops[i].date < cy.to})

\* C22: with a limit above 0, protect_player by the owner is rejected iff the
\* LOCK operations of that manager dated inside the cycle that holds the
\* transaction date number at least the limit, the open cycle before the first
\* kickoff (or of an empty schedule) included; with limit 0 the owner is never
\* rejected.
C22_ShieldDecision ==
    \A m \in Managers, s \in Slugs, d \in Dates :
        LET limit == cfg_get(config[league_id[m]], "max_shields_per_player_per_journey",
                             DefaultMaxShields)
            exit == protect_player(Store, m, s, d, TRUE).exit
        IN (\E it \in roster : it.manager_id = m /\ it.player_slug = s)
            => IF limit > 0
               THEN (exit = "limit_reached") <=> (LocksByManagerInCycle(m, CycleOf(d)) >= limit)
               ELSE exit = "accepted"

\* C29: an accepted protect_player never moves an item's locked_until to an
\* earlier day than the one it had before the call.
C29_ShieldNeverShortens ==
    [][(last'.op = "protect" /\ last'.exit = "accepted")
       => \A old \in roster, new \in roster' :
            (new.id = old.id /\ old.locked_until # Null)
                => (new.locked_until # Null /\ new.locked_until[1] >= old.locked_until[1])]_vars

\* what one Operation row did to the cash of manager m: a TRANSFER row takes
\* its amount from the buyer and gives it to the seller, any other row adds
\* its signed amount to the manager it names
NetEffect(row, m) ==
    IF row.op_type = "TRANSFER"
    THEN (IF row.seller_id = m THEN row.amount ELSE 0) - (IF row.buyer_id = m THEN row.amount ELSE 0)
    ELSE IF m \in {row.buyer_id, row.seller_id} THEN row.amount ELSE 0

\* C26: in every reachable state each manager's budget is the budget the
\* ledger started with plus the sum, over the Operation log, of the net effect
\* of each row on that manager.
C26_LedgerReconstruction ==
    \A m \in Managers :
        budget[m] = InitialBudget[m] + sum([i \in 1..Len(ops) |-> NetEffect(ops[i], m)])

\* the log holds a row of the manager, who has then asked for a payment that
\* changed the budget in the session and was rolled back
C26_Witness ==
    /\ last.op = "distribute_payment"
    /\ last.exit = "format_error"
    /\ \E i \in 1..Len(ops) : last.m \in {ops[i].buyer_id, ops[i].seller_id}

\* the managers a call acts for: buyer and seller of a transfer, the owner of
\* the item of a sale, the manager named in any other call
Acting ==
    CASE last'.op = "transfer" -> {last'.m, last'.m2}
      [] last'.op = "sell" -> {it.manager_id : it \in {r \in roster : r.id = last'.item}}
      [] OTHER -> {last'.m}

\* C27: no market operation changes a manager's team_value_snapshot, and each
\* leaves the budget and the roster items of every manager other than the
\* acting one (buyer and seller for a transfer) as they were.
C27_Frame ==
    [][/\ snapshot' = snapshot
       /\ \A x \in Managers \ Acting :
            /\ budget'[x] = budget[x]
            /\ {it \in roster' : it.manager_id = x} = {it \in roster : it.manager_id = x}]_vars

\* a manager's shield has been accepted while a rival holds a player
C27_Witness ==
    /\ last.op = "protect"
    /\ last.exit = "accepted"
    /\ \E it \in roster : it.manager_id # last.m /\ it.locked_until = Null
    /\ \E it \in roster : it.manager_id = last.m /\ it.locked_until # Null

\* C30: for every input the regularity metric is a percentage between 0 and
\* 100 (held in tenths): the available-pool records scoring at least the
\* threshold never outnumber the available count they are divided by.
C30_RegularityIsPercentage ==
    Computed =>
        /\ metrics[1].regularity >= 0
        /\ metrics[1].regularity <= 1000
        /\ AvailableCount(args) > 0
            => Len(SelectSeq(PoolOf(args), LAMBDA x : x >= args.threshold)) <= AvailableCount(args)

\* the Operations of a league, in the order of the log
OperationsOf(league) == SelectSeq(ops, LAMBDA o : o.league_id = league)

\* C24: get_detailed_operations without an op_type, or with "ALL", returns
\* every Operation of the league; with a specific op_type it returns exactly
\* the league's Operations of that type; it returns None only when the league
\* has no Operations.
C24_DetailedOperations ==
    query.fn = "get_detailed_operations" =>
        LET all == OperationsOf(query.league_id)
        IN IF all = <<>> THEN query.answer = Null
           ELSE IF query.op \in {Null, Some("ALL")} THEN query.answer = Some(all)
           ELSE query.answer = Some(SelectSeq(all, LAMBDA o : o.op_type = query.op[1]))

\* the rows that record a player changing hands
PlayerTransferTypes == {"BUY", "SALE", "TRANSFER"}
TransfersOnly == [Store EXCEPT !.ops = SelectSeq(ops, LAMBDA o : o.op_type \in PlayerTransferTypes)]
\* the transfers a manager made: purchases for "BUY", sales for "SELL", both for "ALL"
TransfersMade(m, op) ==
    CASE op = "BUY" -> Len(purchases(TransfersOnly, m))
      [] op = "SELL" -> Len(sales(TransfersOnly, m))
      [] OTHER -> Len(purchases(TransfersOnly, m)) + Len(sales(TransfersOnly, m))

\* C25: get_transfers_leaderboard gives the league's managers in descending
\* order of the transfers each made, and operations that are not player
\* transfers (CLAUSE_INCREASE, LOCK, payments) change no manager's position:
\* the answer is the one the transfer rows alone give.
C25_TransfersLeaderboard ==
    (query.fn = "get_transfers_leaderboard" /\ query.answer # Null) =>
        LET board == query.answer[1]
        IN /\ \A i \in 1..Len(board), j \in 1..Len(board) :
                i < j => TransfersMade(board[i], query.op[1]) >= TransfersMade(board[j], query.op[1])
           /\ query.answer = get_transfers_leaderboard(TransfersOnly, query.league_id, query.op[1])
====
